---------------------------- MODULE Spec2Model ----------------------------
(***************************************************************************)
(* A model of cly: the command tree (CommandNode, CLIGroup, CLI), the      *)
(* dispatcher CLI.exec with the argparse parser it builds, and the bash    *)
(* completion script that CLI.print_completion emits.                      *)
(*                                                                         *)
(* Text is modelled as a sequence of one-character strings, so that        *)
(* strip, split, join, prefix tests and the `--*` pattern are computed the *)
(* way the code computes them.                                             *)
(***************************************************************************)
EXTENDS Naturals, Sequences, FiniteSets

VARIABLES
    root,    \* CLI.root: the command tree of the CLI, a map path -> node
    groot,   \* CLIGroup.root: the command tree of a group to be mounted
    root2,   \* the root of a second CLI instance (used to compare scripts)
    nops,    \* how many construction calls (cmd, include_group) were made
    reg,     \* record of the last construction call on the CLI
    run,     \* record of the last CLI.exec call
    run2,    \* record of the last exec call of the second CLI instance
    comp     \* record of the last run of the emitted completion function

vars == <<root, groot, root2, nops, reg, run, run2, comp>>

(***************************************************************************)
(* Bounds of the model.                                                    *)
(***************************************************************************)
MaxOps == 4
MaxArgv == 4
MaxWords == 3

(***************************************************************************)
(* Text helpers (Python str methods used by the code).                     *)
(***************************************************************************)
StartsWith(s, p) == Len(s) >= Len(p) /\ SubSeq(s, 1, Len(p)) = p

RECURSIVE lstrip(_, _)
lstrip(s, c) == IF s # <<>> /\ Head(s) = c THEN lstrip(Tail(s), c) ELSE s

RECURSIVE rstrip(_, _)
rstrip(s, c) ==
    IF s # <<>> /\ s[Len(s)] = c THEN rstrip(SubSeq(s, 1, Len(s) - 1), c) ELSE s

strip(s, c) == rstrip(lstrip(s, c), c)

\* str.split(c): the pieces between the occurrences of c, empty pieces kept
RECURSIVE split_from(_, _, _)
split_from(s, c, cur) ==
    IF s = <<>> THEN <<cur>>
    ELSE IF Head(s) = c THEN <<cur>> \o split_from(Tail(s), c, <<>>)
    ELSE split_from(Tail(s), c, Append(cur, Head(s)))

split(s, c) == split_from(s, c, <<>>)

\* sep.join(parts)
RECURSIVE join(_, _)
join(parts, sep) ==
    IF parts = <<>> THEN <<>>
    ELSE IF Len(parts) = 1 THEN parts[1]
    ELSE parts[1] \o sep \o join(Tail(parts), sep)

InSeq(x, s) == \E i \in 1..Len(s) : s[i] = x

RECURSIVE SelectNonEmpty(_)
SelectNonEmpty(parts) ==
    IF parts = <<>> THEN <<>>
    ELSE IF Head(parts) # <<>> THEN <<Head(parts)>> \o SelectNonEmpty(Tail(parts))
    ELSE SelectNonEmpty(Tail(parts))

(***************************************************************************)
(* Handlers: the functions the host application registers.  A handler is   *)
(* named by a string; Parameters is what inspect.signature reports for it: *)
(* its parameters in declaration order, each required (no default) or      *)
(* optional with a default.                                                *)
(***************************************************************************)
NoFunc == "None"

Param(name, required, default) ==
    [name |-> name, required |-> required, default |-> default]

\* def greet(n, gr="d")    def copy(s, t)    def both(gr="d", go="e")
Parameters(func) ==
    CASE func = "greet" -> << Param(<<"n">>, TRUE, <<>>),
                              Param(<<"g", "r">>, FALSE, <<"d">>) >>
      [] func = "copy"  -> << Param(<<"s">>, TRUE, <<>>),
                              Param(<<"t">>, TRUE, <<>>) >>
      [] func = "both"  -> << Param(<<"g", "r">>, FALSE, <<"d">>),
                              Param(<<"g", "o">>, FALSE, <<"e">>) >>
      [] OTHER          -> << >>

NoSignature == [set |-> FALSE, parameters |-> << >>]

\* inspect.signature(func)
signature(func) == [set |-> TRUE, parameters |-> Parameters(func)]

(***************************************************************************)
(* CommandNode.  A tree is a function from paths (sequences of child       *)
(* names from the root) to nodes; a node's children field is the sequence  *)
(* of its dict keys in insertion order.                                    *)
(***************************************************************************)
CommandNode(help) ==
    [func |-> NoFunc, help |-> help, signature |-> NoSignature,
     completion |-> << >>, children |-> << >>]

\* a fresh tree: CLI.__init__ / CLIGroup.__init__
NewTree == [p \in {<< >>} |-> CommandNode("")]

\* CommandNode.get_or_create_child, on the node at path p
get_or_create_child(t, p, name) ==
    IF InSeq(name, t[p].children) THEN t
    ELSE [q \in (DOMAIN t) \cup {Append(p, name)} |->
            IF q = Append(p, name) THEN CommandNode("")
            ELSE IF q = p THEN [t[p] EXCEPT !.children = Append(@, name)]
            ELSE t[q]]

\* for part in parts: node = node.get_or_create_child(part)
RECURSIVE descend(_, _, _)
descend(t, p, parts) ==
    IF parts = << >> THEN t
    ELSE descend(get_or_create_child(t, p, Head(parts)),
                 Append(p, Head(parts)), Tail(parts))

\* the body of the decorator that CLI.cmd / CLIGroup.cmd return, applied to
\* the handler r.func: the tree after registration at `path`
cmd(t, path, r) ==
    LET parts == split(strip(path, "/"), "/")
        t1    == descend(t, << >>, parts)
    IN  [t1 EXCEPT ![parts] =
            [@ EXCEPT !.func = r.func,
                      !.help = r.help,
                      !.completion = r.completion,
                      !.signature = signature(r.func)]]

\* copy_subtree(from_node, to_node) of include_group: from_node is the node
\* of tree g at path fp, to_node the node of tree t at path tp; kids is the
\* part of from_node.children still to be visited
RECURSIVE copy_subtree(_, _, _, _), copy_children(_, _, _, _, _)
copy_subtree(g, fp, t, tp) ==
    LET t1 == IF g[fp].func # NoFunc
              THEN [t EXCEPT ![tp] =
                      [@ EXCEPT !.func = g[fp].func,
                                !.help = g[fp].help,
                                !.completion = g[fp].completion,
                                !.signature = g[fp].signature]]
              ELSE t
    IN  copy_children(g, fp, t1, tp, g[fp].children)

copy_children(g, fp, t, tp, kids) ==
    IF kids = << >> THEN t
    ELSE LET cname == Head(kids)
             t1    == copy_subtree(g, Append(fp, cname),
                                   get_or_create_child(t, tp, cname),
                                   Append(tp, cname))
         IN  copy_children(g, fp, t1, tp, Tail(kids))

\* CLI.include_group(group, prefix): the tree after the mount
include_group(t, g, prefix) ==
    LET prefix_parts == SelectNonEmpty(split(strip(prefix, "/"), "/"))
        t1           == descend(t, << >>, prefix_parts)
    IN  copy_subtree(g, << >>, t1, prefix_parts)

(***************************************************************************)
(* CommandNode.find_node: greedy descent over argv from the root.          *)
(***************************************************************************)
RECURSIVE find_from(_, _, _, _)
find_from(t, path, argv, idx) ==
    IF idx <= Len(argv) /\ InSeq(argv[idx], t[path].children)
    THEN find_from(t, Append(path, argv[idx]), argv, idx + 1)
    ELSE [path |-> path, remaining |-> SubSeq(argv, idx, Len(argv))]

\* returns the node (named by its path), the path, and argv[idx:]
find_node(t, argv) == find_from(t, << >>, argv, 1)

(***************************************************************************)
(* CommandNode.collect_recursive / collect_structure: depth-first, parents *)
(* first, children in dict (insertion) order.  Nodes are named by path.    *)
(***************************************************************************)
RECURSIVE collect_recursive(_, _), collect_recursive_kids(_, _, _)
collect_recursive(t, prefix) ==
    (IF t[prefix].func # NoFunc THEN <<prefix>> ELSE << >>)
        \o collect_recursive_kids(t, prefix, t[prefix].children)

collect_recursive_kids(t, prefix, kids) ==
    IF kids = << >> THEN << >>
    ELSE collect_recursive(t, Append(prefix, Head(kids)))
            \o collect_recursive_kids(t, prefix, Tail(kids))

RECURSIVE collect_structure(_, _), collect_structure_kids(_, _, _)
collect_structure(t, prefix) ==
    <<prefix>> \o collect_structure_kids(t, prefix, t[prefix].children)

collect_structure_kids(t, prefix, kids) ==
    IF kids = << >> THEN << >>
    ELSE collect_structure(t, Append(prefix, Head(kids)))
            \o collect_structure_kids(t, prefix, Tail(kids))

(***************************************************************************)
(* Python dict and sorted(), on sequences of <<key, value>> pairs.         *)
(***************************************************************************)
HasKey(d, k) == \E i \in 1..Len(d) : d[i][1] = k

\* d[k] = v: an existing key keeps its place, a new key goes last
DictSet(d, k, v) ==
    IF HasKey(d, k)
    THEN [i \in 1..Len(d) |-> IF d[i][1] = k THEN <<k, v>> ELSE d[i]]
    ELSE Append(d, <<k, v>>)

\* code points of the characters the model's text uses
Ord(c) ==
    CASE c = " " -> 32 [] c = "-" -> 45 [] c = "/" -> 47 [] c = "=" -> 61
      [] c = "_" -> 95 [] c = "a" -> 97 [] c = "b" -> 98 [] c = "c" -> 99
      [] c = "d" -> 100 [] c = "e" -> 101 [] c = "g" -> 103 [] c = "h" -> 104
      [] c = "i" -> 105 [] c = "l" -> 108 [] c = "m" -> 109 [] c = "n" -> 110
      [] c = "o" -> 111 [] c = "p" -> 112 [] c = "r" -> 114 [] c = "s" -> 115
      [] c = "t" -> 116 [] OTHER -> 120

\* str < str
RECURSIVE StrLess(_, _)
StrLess(x, y) ==
    IF y = << >> THEN FALSE
    ELSE IF x = << >> THEN TRUE
    ELSE IF Head(x) = Head(y) THEN StrLess(Tail(x), Tail(y))
    ELSE Ord(Head(x)) < Ord(Head(y))

\* sorted(S) for a set of strings
RECURSIVE sorted(_)
sorted(S) ==
    IF S = {} THEN << >>
    ELSE LET m == CHOOSE x \in S : \A y \in S \ {x} : StrLess(x, y)
         IN  <<m>> \o sorted(S \ {m})

SeqToSet(s) == { s[i] : i \in 1..Len(s) }

(***************************************************************************)
(* CLI.print_completion: the tables of the emitted script.  The script is  *)
(* a fixed template around these lines, so two scripts are byte-identical  *)
(* exactly when their tables are equal.                                    *)
(***************************************************************************)
Underscore == <<"_">>
CompPrefix == <<"_", "C", "O", "M", "P", "_">>
Space == <<" ">>
DashDash == <<"-", "-">>

\* nodes[label] = (prefix, node) for the handler-bearing nodes
RECURSIVE nodes_dict(_, _)
nodes_dict(prefixes, d) ==
    IF prefixes = << >> THEN d
    ELSE nodes_dict(Tail(prefixes),
                    DictSet(d, join(Head(prefixes), Underscore), Head(prefixes)))

\* subcmds_map[pfx] = children for the non-root nodes that have children
RECURSIVE subcmds_dict(_, _, _)
subcmds_dict(t, prefixes, d) ==
    IF prefixes = << >> THEN d
    ELSE LET prefix == Head(prefixes)
         IN  subcmds_dict(t, Tail(prefixes),
                 IF Len(prefix) # 0 /\ t[prefix].children # << >>
                 THEN DictSet(d, join(prefix, Underscore), t[prefix].children)
                 ELSE d)

\* append opt to optlist unless it is there
AddOpt(optlist, opt) == IF InSeq(opt, optlist) THEN optlist ELSE Append(optlist, opt)

RECURSIVE param_opts(_, _)
param_opts(parameters, optlist) ==
    IF parameters = << >> THEN optlist
    ELSE param_opts(Tail(parameters),
                    AddOpt(optlist, DashDash \o Head(parameters).name))

RECURSIVE completion_opts(_, _)
completion_opts(completion, optlist) ==
    IF completion = << >> THEN optlist
    ELSE completion_opts(Tail(completion),
                         AddOpt(optlist, DashDash \o Head(completion)[1]))

\* opt_map[label] for one entry of nodes
opt_list(node) ==
    completion_opts(node.completion,
        IF node.signature.set THEN param_opts(node.signature.parameters, << >>)
        ELSE << >>)

\* the script's table lines, in the order they are emitted: the array
\* assignments _COMP_<label>__<arg>=("v" ...) as <<variable, values>>, the
\* cmds word list, and the subcmds / opts / vals assignments as <<key, text>>
print_completion(t) ==
    LET nodes     == nodes_dict(collect_recursive(t, << >>), << >>)
        structure == collect_structure(t, << >>)
        all_cmds  == SeqToSet(t[<< >>].children)
        subcmds_map == subcmds_dict(t, structure, << >>)
        opt_map   == [i \in 1..Len(nodes) |->
                        <<nodes[i][1], opt_list(t[nodes[i][2]])>>]
        val_idx   == { i \in 1..Len(nodes) : t[nodes[i][2]].completion # << >> }
        val_lines(i) ==
            LET c == t[nodes[i][2]].completion
            IN  [j \in 1..Len(c) |->
                    <<nodes[i][1] \o Underscore \o Underscore \o c[j][1],
                      join(c[j][2], Space)>>]
        RECURSIVE flat_vals(_)
        flat_vals(i) ==
            IF i > Len(nodes) THEN << >>
            ELSE (IF i \in val_idx THEN val_lines(i) ELSE << >>) \o flat_vals(i + 1)
        array_lines(i) ==
            LET c == t[nodes[i][2]].completion
            IN  [j \in 1..Len(c) |->
                    <<CompPrefix \o nodes[i][1] \o Underscore \o Underscore \o c[j][1],
                      c[j][2]>>]
        RECURSIVE flat_arrays(_)
        flat_arrays(i) ==
            IF i > Len(nodes) THEN << >>
            ELSE (IF i \in val_idx THEN array_lines(i) ELSE << >>) \o flat_arrays(i + 1)
    IN  [ arrays  |-> flat_arrays(1),
          cmds    |-> join(sorted(all_cmds), Space),
          subcmds |-> [i \in 1..Len(subcmds_map) |->
                         <<subcmds_map[i][1], join(subcmds_map[i][2], Space)>>],
          opts    |-> [i \in 1..Len(opt_map) |->
                         <<opt_map[i][1], join(opt_map[i][2], Space)>>],
          vals    |-> flat_vals(1) ]

(***************************************************************************)
(* The argparse parser that CLI.exec builds for a handler, and its         *)
(* parse_known_args.  The parser has the help option (-h, --help), one     *)
(* positional per required parameter and one option --name per optional    *)
(* parameter.  Modelled for argument strings that do not begin with `-`,   *)
(* the string -h, and strings that begin with `--` followed by at least    *)
(* one more character.                                                     *)
(***************************************************************************)
HelpDest == <<"h", "e", "l", "p">>
ShortHelp == <<"-", "h">>
LongHelp == DashDash \o HelpDest
Unknown == << >>

IsRequired(p) == p.required

Optionals(parameters) ==
    { parameters[i].name : i \in { j \in 1..Len(parameters) : ~IsRequired(parameters[j]) } }

RECURSIVE Positionals(_)
Positionals(parameters) ==
    IF parameters = << >> THEN << >>
    ELSE (IF IsRequired(Head(parameters)) THEN <<Head(parameters).name>> ELSE << >>)
            \o Positionals(Tail(parameters))

\* a parser that also adds `--name` for the required parameters
OptionStringsForAll(parameters) ==
    {ShortHelp, LongHelp}
        \cup { DashDash \o parameters[i].name : i \in 1..Len(parameters) }

\* parser._option_string_actions, as the set of option strings
OptionStrings(parameters) ==
    {ShortHelp, LongHelp} \cup { DashDash \o n : n \in Optionals(parameters) }

\* the dest of the action an option string belongs to
ActionOf(option_string) ==
    IF option_string \in {ShortHelp, LongHelp} THEN HelpDest
    ELSE SubSeq(option_string, 3, Len(option_string))

\* index of the first "=" of s, 0 when there is none
FirstEq(s) ==
    IF \E i \in 1..Len(s) : s[i] = "="
    THEN CHOOSE i \in 1..Len(s) : s[i] = "=" /\ \A j \in 1..(i - 1) : s[j] # "="
    ELSE 0

Classified(cls, dest, explicit, arg) ==
    [cls |-> cls, dest |-> dest, explicit |-> explicit, arg |-> arg]

\* ArgumentParser._parse_optional with _get_option_tuples (allow_abbrev):
\* cls "A" is an argument, "O" an option (dest Unknown when the parser has
\* no such option), "E" an ambiguous abbreviation (parser.error)
parse_optional(parameters, arg_string) ==
    LET opts   == OptionStrings(parameters)
        eq     == FirstEq(arg_string)
        before == IF eq = 0 THEN arg_string ELSE SubSeq(arg_string, 1, eq - 1)
        after  == IF eq = 0 THEN << >> ELSE SubSeq(arg_string, eq + 1, Len(arg_string))
        abbrev == IF StartsWith(arg_string, DashDash)
                  THEN { o \in opts : StartsWith(o, before) }
                  ELSE {}
    IN  IF arg_string = << >> \/ Head(arg_string) # "-"
            THEN Classified("A", Unknown, FALSE, << >>)
        ELSE IF arg_string \in opts
            THEN Classified("O", ActionOf(arg_string), FALSE, << >>)
        ELSE IF Len(arg_string) = 1
            THEN Classified("A", Unknown, FALSE, << >>)
        ELSE IF eq # 0 /\ before \in opts
            THEN Classified("O", ActionOf(before), TRUE, after)
        ELSE IF Cardinality(abbrev) > 1
            THEN Classified("E", Unknown, FALSE, << >>)
        ELSE IF Cardinality(abbrev) = 1
            THEN Classified("O", ActionOf(CHOOSE o \in abbrev : TRUE), eq # 0, after)
        ELSE Classified("O", Unknown, FALSE, << >>)

Min(x, y) == IF x < y THEN x ELSE y

Value(v) == [set |-> TRUE, val |-> v]
None == [set |-> FALSE, val |-> << >>]

\* a parser whose options are added without default=param.default
DefaultsDropped(parameters) ==
    [n \in { parameters[i].name : i \in 1..Len(parameters) } |-> None]

\* the namespace before parsing: each dest set to its action's default
Defaults(parameters) ==
    [n \in { parameters[i].name : i \in 1..Len(parameters) } |->
        LET p == CHOOSE q \in SeqToSet(parameters) : q.name = n
        IN  IF IsRequired(p) THEN None ELSE Value(p.default)]

\* take_action for the first k of the positionals pos on args[i .. i+k-1]
StorePositionals(ns, pos, args, i, k) ==
    [n \in DOMAIN ns |->
        IF \E j \in 1..k : pos[j] = n
        THEN Value(args[i + (CHOOSE j \in 1..k : pos[j] = n) - 1])
        ELSE ns[n]]

\* the consume loop of _parse_known_args from start index i (1-based), with
\* the positionals still to be parsed and the namespace so far; the result
\* is   ok (the namespace, and the positionals never seen),
\*      help (the help action ran: print_help and exit 0), or
\*      error (parser.error: exit 2)
RECURSIVE consume(_, _, _, _, _)
consume(cl, args, i, pos, ns) ==
    LET n       == Len(args)
        options == { j \in i..n : cl[j].cls = "O" }
    IN  IF options = {}
        THEN \* consume any positionals following the last optional
             LET k == Min(Len(pos), n - i + 1)
             IN  [status |-> "ok",
                  ns |-> StorePositionals(ns, pos, args, i, k),
                  unseen |-> SubSeq(pos, k + 1, Len(pos))]
        ELSE LET next == CHOOSE j \in options : \A m \in options : j <= m
                 k    == Min(Len(pos), next - i)
                 c    == cl[next]
             IN  IF k > 0
                 THEN \* consume_positionals took k strings before the option
                      consume(cl, args, i + k, SubSeq(pos, k + 1, Len(pos)),
                              StorePositionals(ns, pos, args, i, k))
                 ELSE \* the strings before the option are extras;
                      \* consume_optional(next)
                      IF c.dest = Unknown
                          THEN consume(cl, args, next + 1, pos, ns)
                      ELSE IF c.explicit
                          THEN IF c.dest = HelpDest
                               THEN [status |-> "error", ns |-> ns, unseen |-> pos]
                               ELSE consume(cl, args, next + 1, pos,
                                            [ns EXCEPT ![c.dest] = Value(c.arg)])
                      ELSE IF c.dest = HelpDest
                          THEN [status |-> "help", ns |-> ns, unseen |-> pos]
                      ELSE IF next + 1 <= n /\ cl[next + 1].cls = "A"
                          THEN consume(cl, args, next + 2, pos,
                                       [ns EXCEPT ![c.dest] = Value(args[next + 1])])
                      ELSE [status |-> "error", ns |-> ns, unseen |-> pos]

\* ap.parse_known_args(remaining) for the parser built from `parameters`
parse_known_args(parameters, args) ==
    LET cl == [i \in 1..Len(args) |-> parse_optional(parameters, args[i])]
        r  == consume(cl, args, 1, Positionals(parameters), Defaults(parameters))
    IN  IF \E i \in 1..Len(args) : cl[i].cls = "E"
            THEN [status |-> "error", ns |-> Defaults(parameters)]
        ELSE IF r.status = "ok" /\ r.unseen # << >>
            THEN \* the following arguments are required
                 [status |-> "error", ns |-> r.ns]
        ELSE [status |-> r.status, ns |-> r.ns]

(***************************************************************************)
(* CLI.exec.  A result records how the call ended: kind, whether and with  *)
(* which code the process exited, what was printed and the handler calls.  *)
(***************************************************************************)
Completion == <<"-", "-", "c", "o", "m", "p", "l", "e", "t", "i", "o", "n">>

Result(kind, exited, code, argv, path, remaining, out, calls) ==
    [kind |-> kind, exited |-> exited, code |-> code, argv |-> argv,
     path |-> path, remaining |-> remaining, out |-> out, calls |-> calls]

\* the first required parameter whose value is None, 0 when there is none
FirstMissing(parameters, ns) ==
    LET miss == { i \in 1..Len(parameters) :
                    IsRequired(parameters[i]) /\ ~ns[parameters[i].name].set }
    IN  IF miss = {} THEN 0 ELSE CHOOSE i \in miss : \A j \in miss : i <= j

\* a handlerless branch that prints the subcommands and exits with 0
no_handler_exit0(argv, found, node) ==
    IF node.children # << >>
    THEN Result("usage", TRUE, 0, argv, found.path, found.remaining,
                node.children, << >>)
    ELSE Result("unknown", TRUE, 1, argv, found.path, found.remaining,
                << >>, << >>)

\* the branch of exec for a node without a handler: the usage line with
\* the subcommands, or the unknown-command line; both exit with 1
no_handler(argv, found, node) ==
    IF node.children # << >>
    THEN Result("usage", TRUE, 1, argv, found.path, found.remaining,
                node.children, << >>)
    ELSE Result("unknown", TRUE, 1, argv, found.path, found.remaining,
                << >>, << >>)

exec(t, argv) ==
    LET found      == find_node(t, argv)
        node       == t[found.path]
        parameters == node.signature.parameters
        parsed     == parse_known_args(parameters, found.remaining)
        missing    == FirstMissing(parameters, parsed.ns)
        kw         == [n \in DOMAIN parsed.ns |-> parsed.ns[n].val]
    IN  IF InSeq(Completion, argv)
            THEN Result("completion", TRUE, 0, argv, << >>, << >>,
                        print_completion(t), << >>)
        ELSE IF argv = << >>
            THEN Result("help", TRUE, 1, argv, << >>, << >>, << >>, << >>)
        ELSE IF node.func = NoFunc
            THEN no_handler(argv, found, node)
        ELSE IF parsed.status = "error"
            THEN Result("argparse_error", TRUE, 2, argv, found.path,
                        found.remaining, << >>, << >>)
        ELSE IF parsed.status = "help"
            THEN Result("argparse_help", TRUE, 0, argv, found.path,
                        found.remaining, << >>, << >>)
        ELSE IF missing # 0
            THEN Result("missing", TRUE, 1, argv, found.path, found.remaining,
                        parameters[missing].name, << >>)
        ELSE Result("invoked", FALSE, 0, argv, found.path, found.remaining,
                    << >>, << [func |-> node.func, kw |-> kw] >>)

(***************************************************************************)
(* The emitted completion function _cli_completion, run by bash on the     *)
(* tables of the script with COMP_WORDS = words (words[0] is the program   *)
(* name; here sequences are 1-based, Word(words, i) is ${words[i]}) and    *)
(* COMP_CWORD = cword.                                                     *)
(***************************************************************************)
\* ${words[i]}: the empty string outside the array
Word(words, i) == IF i + 1 \in 1..Len(words) THEN words[i + 1] ELSE << >>

\* ${table[key]} after the script's assignments: the last one made to key
Lookup(table, key) ==
    LET hits == { i \in 1..Len(table) : table[i][1] = key }
    IN  IF hits = {} THEN << >>
        ELSE table[CHOOSE i \in hits : \A j \in hits : j <= i][2]

\* word splitting of an unquoted expansion
WordsOf(str) == SelectNonEmpty(split(str, " "))

\* the decimal text of a small number, as echo prints $idx
Digits == <<"0", "1", "2", "3", "4", "5", "6", "7", "8", "9">>
RECURSIVE Decimal(_)
Decimal(n) == IF n < 10 THEN <<Digits[n + 1]>>
              ELSE Decimal(n \div 10) \o <<Digits[(n % 10) + 1]>>

\* [[ "$w" == --* ]]
IsDashDash(w) == StartsWith(w, DashDash)

\* compgen -W "$wordlist" -- "$cur": the words of the list that start with cur
RECURSIVE compgen(_, _)
compgen(wordlist, cur) ==
    IF wordlist = << >> THEN << >>
    ELSE (IF StartsWith(Head(wordlist), cur) THEN <<Head(wordlist)>> ELSE << >>)
            \o compgen(Tail(wordlist), cur)

\* find_cmd_label: the loop from idx with curr_label and last_label; the
\* result is what `echo "$last_label $idx"` prints, as its two parts
RECURSIVE find_cmd_label_from(_, _, _, _, _)
find_cmd_label_from(script, words, cword, idx, curr_label) ==
    IF ~(idx < cword) THEN [last_label |-> curr_label, idx |-> idx]
    ELSE LET arg  == Word(words, idx)
             next == IF curr_label = << >> THEN arg
                     ELSE curr_label \o Underscore \o arg
         IN  IF IsDashDash(arg) THEN [last_label |-> curr_label, idx |-> idx]
             ELSE IF Lookup(script.subcmds, next) # << >>
                  THEN find_cmd_label_from(script, words, cword, idx + 1, next)
                  ELSE [last_label |-> next, idx |-> idx]

find_cmd_label(script, words, cword) ==
    find_cmd_label_from(script, words, cword, 1, << >>)

\* read sub_label argstart <<<"$(find_cmd_label)": the line is split at
\* blanks, so an empty label makes the index the first field and leaves
\* argstart empty, which bash arithmetic reads as 0
read_label(found) ==
    IF found.last_label = << >>
    THEN [sub_label |-> Decimal(found.idx), argstart |-> 0]
    ELSE [sub_label |-> found.last_label, argstart |-> found.idx]

\* ${word%%=*} then ${argn#--}
OptName(word) ==
    LET eq   == FirstEq(word)
        argn == IF eq = 0 THEN word ELSE SubSeq(word, 1, eq - 1)
    IN  IF IsDashDash(argn) THEN SubSeq(argn, 3, Len(argn)) ELSE argn

\* the loop collecting already_set_opts from idx
RECURSIVE already_set_opts(_, _, _)
already_set_opts(words, cword, idx) ==
    IF ~(idx < cword) THEN << >>
    ELSE LET word == Word(words, idx)
         IN  IF IsDashDash(word)
             THEN <<OptName(word)>> \o
                  already_set_opts(words, cword,
                      IF /\ FirstEq(word) = 0
                         /\ idx + 1 < cword
                         /\ ~IsDashDash(Word(words, idx + 1))
                      THEN idx + 2 ELSE idx + 1)
             ELSE already_set_opts(words, cword, idx + 1)

\* the options of the label whose name is not among already_set_opts
RECURSIVE remaining_opts(_, _)
remaining_opts(optlist, set_opts) ==
    IF optlist = << >> THEN << >>
    ELSE LET opt == Head(optlist)
             o   == IF IsDashDash(opt) THEN SubSeq(opt, 3, Len(opt)) ELSE opt
         IN  (IF InSeq(o, set_opts) THEN << >> ELSE <<opt>>)
                \o remaining_opts(Tail(optlist), set_opts)

Reply(found, read, reply) ==
    [defined |-> TRUE, last_label |-> found.last_label, idx |-> found.idx,
     sub_label |-> read.sub_label, argstart |-> read.argstart, reply |-> reply]

\* _cli_completion: COMPREPLY, with the label and index it worked from
cli_completion(script, words, cword) ==
    LET cur    == Word(words, cword)
        prev   == Word(words, cword - 1)
        found  == find_cmd_label(script, words, cword)
        rd0    == read_label(found)
        \* the fallback label for an empty sub_label
        rd     == IF rd0.sub_label = << >>
                  THEN [sub_label |-> Word(words, 1), argstart |-> 2]
                  ELSE rd0
        label  == rd.sub_label
        subs   == Lookup(script.subcmds, label)
        setops == already_set_opts(words, cword, rd.argstart)
        rem    == remaining_opts(WordsOf(Lookup(script.opts, label)), setops)
        vals(argname) ==
            Lookup(script.vals, label \o Underscore \o Underscore \o argname)
        eq     == FirstEq(cur)
    IN  IF cword = 1
            THEN Reply([last_label |-> << >>, idx |-> 1],
                       [sub_label |-> << >>, argstart |-> 0],
                       compgen(WordsOf(script.cmds), cur))
        ELSE IF /\ subs # << >> /\ cword = rd.argstart
                /\ ~InSeq(Word(words, rd.argstart), WordsOf(subs))
            THEN Reply(found, rd, compgen(WordsOf(subs), cur))
        ELSE IF IsDashDash(prev) /\ vals(SubSeq(prev, 3, Len(prev))) # << >>
            THEN Reply(found, rd,
                       compgen(WordsOf(vals(SubSeq(prev, 3, Len(prev)))), cur))
        ELSE IF IsDashDash(cur) /\ eq # 0 /\ vals(OptName(cur)) # << >>
            THEN Reply(found, rd,
                       compgen(WordsOf(vals(OptName(cur))),
                               SubSeq(cur, eq + 1, Len(cur))))
        ELSE IF /\ cword >= 2
                /\ IsDashDash(Word(words, cword - 2))
                /\ vals(SubSeq(Word(words, cword - 2), 3,
                               Len(Word(words, cword - 2)))) # << >>
                /\ rem # << >>
            THEN Reply(found, rd, compgen(rem, cur))
        ELSE Reply(found, rd, compgen(rem, cur))

\* a bash variable name: letters, digits and underscores
NameChars ==
    { "_", "0", "1", "2", "3", "4", "5", "6", "7", "8", "9",
      "a", "b", "c", "d", "e", "f", "g", "h", "i", "j", "k", "l", "m",
      "n", "o", "p", "q", "r", "s", "t", "u", "v", "w", "x", "y", "z",
      "A", "B", "C", "D", "E", "F", "G", "H", "I", "J", "K", "L", "M",
      "N", "O", "P", "Q", "R", "S", "T", "U", "V", "W", "X", "Y", "Z" }

\* bash parses the script: an array assignment whose variable is no name is
\* a syntax error, and then the script defines no completion function
ScriptParses(script) ==
    \A i \in 1..Len(script.arrays) :
        \A j \in 1..Len(script.arrays[i][1]) : script.arrays[i][1][j] \in NameChars

\* sourcing the script and pressing TAB: COMPREPLY of the completion function,
\* or nothing when the script defined none
complete(script, words, cword) ==
    IF ScriptParses(script) THEN cli_completion(script, words, cword)
    ELSE [defined |-> FALSE, last_label |-> << >>, idx |-> 0,
          sub_label |-> << >>, argstart |-> 0, reply |-> << >>]

(***************************************************************************)
(* Inputs of the construction calls.                                       *)
(***************************************************************************)
\* path strings handed to cmd: "a", "a/b", "/a/", "a_b", "--g"
CmdPaths ==
    { <<"a">>, <<"a", "/", "b">>, <<"/", "a", "/">>, <<"a", "_", "b">>,
      <<"-", "-", "g">> }

\* path strings handed to CLIGroup.cmd: "a", "b"
GroupPaths == { <<"a">>, <<"b">> }

\* prefixes handed to include_group: "", "a", "/a/"
Prefixes == { << >>, <<"a">>, <<"/", "a", "/">> }

\* (handler, help, completion) triples handed to cmd
Registrations ==
    { [func |-> "greet", help |-> "",
       completion |-> << << <<"g", "r">>, << <<"d">>, <<"e">> >> >> >>],
      [func |-> "copy",  help |-> "copies", completion |-> << >>],
      [func |-> "both",  help |-> "", completion |-> << >>] }

(***************************************************************************)
(* Construction actions.  Neither cmd nor include_group has a raise        *)
(* statement: reg.raised records that the call returned normally.          *)
(***************************************************************************)
NoReg == [op |-> "none", arg |-> << >>, before |-> NewTree,
          group |-> NewTree, raised |-> "none"]
NoRun == Result("none", FALSE, 0, << >>, << >>, << >>, << >>, << >>)
NoComp == [kind |-> "none", before |-> << >>, cur |-> << >>, cword |-> 0,
           defined |-> FALSE, last_label |-> << >>, idx |-> 0,
           sub_label |-> << >>, argstart |-> 0, reply |-> << >>]

\* @cli.cmd(path, help, completion) def func(...)
Cmd(path, r) ==
    /\ nops < MaxOps
    /\ root' = cmd(root, path, r)
    /\ reg' = [op |-> "cmd", arg |-> path, before |-> root,
               group |-> NewTree, raised |-> "none"]
    /\ nops' = nops + 1
    /\ UNCHANGED <<groot, root2, run, run2, comp>>

\* @group.cmd(path, help, completion) def func(...)
GroupCmd(path, r) ==
    /\ nops < MaxOps
    /\ groot' = cmd(groot, path, r)
    /\ nops' = nops + 1
    /\ UNCHANGED <<root, root2, reg, run, run2, comp>>

\* cli.include_group(group, prefix)
IncludeGroup(prefix) ==
    /\ nops < MaxOps
    /\ root' = include_group(root, groot, prefix)
    /\ reg' = [op |-> "include_group", arg |-> prefix, before |-> root,
               group |-> groot, raised |-> "none"]
    /\ nops' = nops + 1
    /\ UNCHANGED <<groot, root2, run, run2, comp>>

(***************************************************************************)
(* Dispatch.                                                               *)
(***************************************************************************)
\* the argument strings of the model: a, b, --g, --gr, --gr=a, --n, -h and
\* --completion
ArgTokens ==
    { <<"a">>, <<"b">>, <<"-", "-", "g">>, <<"-", "-", "g", "r">>,
      <<"-", "-", "g", "r", "=", "a">>, <<"-", "-", "n">>, ShortHelp,
      Completion }

RECURSIVE SeqsUpTo(_, _)
SeqsUpTo(S, n) ==
    IF n = 0 THEN { << >> }
    ELSE LET shorter == SeqsUpTo(S, n - 1)
         IN  shorter \cup { Append(s, x) : s \in shorter, x \in S }

Argvs == SeqsUpTo(ArgTokens, MaxArgv)

\* cli.exec(argv)
Exec(argv) ==
    /\ run' = exec(root, argv)
    /\ UNCHANGED <<root, groot, root2, nops, reg, run2, comp>>

(***************************************************************************)
(* Completion: the shell has sourced the script this program prints and    *)
(* the user presses TAB with the words `before` typed and `cur` under the  *)
(* cursor.                                                                 *)
(***************************************************************************)
ProgName == <<"c", "l", "i">>

\* words typed before the cursor: a, b, a_b, --g, --gr, d
WordTokens ==
    { <<"a">>, <<"b">>, <<"a", "_", "b">>, <<"-", "-", "g">>,
      <<"-", "-", "g", "r">>, <<"d">> }

\* the word under the cursor: empty, --, a, --gr=
CurTokens == { << >>, DashDash, <<"a">>, <<"-", "-", "g", "r", "=">> }

Befores == SeqsUpTo(WordTokens, MaxWords)

Complete(before, cur) ==
    /\ comp' = LET words == <<ProgName>> \o before \o <<cur>>
                   cword == Len(before) + 1
                   r     == complete(print_completion(root), words, cword)
               IN  [kind |-> "done", before |-> before, cur |-> cur,
                    cword |-> cword, defined |-> r.defined,
                    last_label |-> r.last_label, idx |-> r.idx,
                    sub_label |-> r.sub_label, argstart |-> r.argstart,
                    reply |-> r.reply]
    /\ UNCHANGED <<root, groot, root2, nops, reg, run, run2>>

(***************************************************************************)
(* A second CLI instance, built and compiled like the first.               *)
(***************************************************************************)
Cmd2(path, r) ==
    /\ nops < MaxOps
    /\ root2' = cmd(root2, path, r)
    /\ nops' = nops + 1
    /\ UNCHANGED <<root, groot, reg, run, run2, comp>>

Exec2(argv) ==
    /\ run2' = exec(root2, argv)
    /\ UNCHANGED <<root, groot, root2, nops, reg, run, comp>>

Init ==
    /\ root = NewTree
    /\ groot = NewTree
    /\ root2 = NewTree
    /\ nops = 0
    /\ reg = NoReg
    /\ run = NoRun
    /\ run2 = NoRun
    /\ comp = NoComp

Next ==
    \/ \E path \in CmdPaths, r \in Registrations : Cmd(path, r)
    \/ \E path \in GroupPaths, r \in Registrations : GroupCmd(path, r)
    \/ \E prefix \in Prefixes : IncludeGroup(prefix)

Spec == Init /\ [][Next]_vars

\* Construction followed by one dispatch: the host program builds the tree
\* at startup and then calls exec once, which exits the process or returns
\* at the end of the program.
MaxExecOps == 2
ExecPaths == { <<"a">>, <<"a", "/", "b">>, <<"-", "-", "g">> }

NextExec ==
    \/ /\ run = NoRun /\ nops < MaxExecOps
       /\ \E path \in ExecPaths, r \in Registrations : Cmd(path, r)
    \/ /\ run = NoRun /\ nops < MaxExecOps
       /\ \E prefix \in Prefixes : IncludeGroup(prefix)
    \/ /\ run = NoRun
       /\ \E argv \in Argvs : Exec(argv)

SpecExec == Init /\ [][NextExec]_vars

\* Construction followed by one completion request.
MaxCompOps == 2

NextComp ==
    \/ /\ comp = NoComp /\ nops < MaxCompOps
       /\ \E path \in CmdPaths, r \in Registrations : Cmd(path, r)
    \/ /\ comp = NoComp
       /\ \E before \in Befores, cur \in CurTokens : Complete(before, cur)

SpecComp == Init /\ [][NextComp]_vars

\* Two CLI instances are built, and each prints its completion script.
StablePaths == { <<"a">>, <<"b">>, <<"a", "/", "b">> }

NextStable ==
    \/ /\ run = NoRun /\ run2 = NoRun
       /\ \E path \in StablePaths, r \in Registrations : Cmd(path, r)
    \/ /\ run = NoRun /\ run2 = NoRun
       /\ \E path \in StablePaths, r \in Registrations : Cmd2(path, r)
    \/ run = NoRun /\ Exec(<<Completion>>)
    \/ run2 = NoRun /\ Exec2(<<Completion>>)

SpecStable == Init /\ [][NextStable]_vars

(***************************************************************************)
(* Vocabulary of the properties.                                           *)
(***************************************************************************)
\* the path a cmd path string names
PathOf(path) == split(strip(path, "/"), "/")

\* the target node of a mount prefix
PrefixOf(prefix) == SelectNonEmpty(split(strip(prefix, "/"), "/"))

HasHandler(t, p) == p \in DOMAIN t /\ t[p].func # NoFunc

FlagLike(tok) == StartsWith(tok, DashDash)

\* the last exec call went through resolution (neither the completion flag
\* nor an empty argv ended it first)
Dispatched == run.kind \notin {"none", "completion", "help"}

\* ... and resolution stopped at a node with a handler
ReachedHandler == Dispatched /\ HasHandler(root, run.path)

TheParameters == root[run.path].signature.parameters

Required(parameters) == Positionals(parameters)

\* a token that is a value, not an option
Plain(tok) == tok = << >> \/ Head(tok) # "-"

\* `--name` for an optional parameter of the handler
IsOptionOf(parameters, tok) ==
    \E n \in Optionals(parameters) : tok = DashDash \o n

\* a `--` token that names no option of the parser, in full or abbreviated
Unrecognised(parameters, tok) ==
    LET eq   == FirstEq(tok)
        name == IF eq = 0 THEN tok ELSE SubSeq(tok, 1, eq - 1)
    IN  /\ FlagLike(tok)
        /\ Len(name) > 2
        /\ \A n \in Optionals(parameters) \cup {HelpDest} :
                ~StartsWith(DashDash \o n, name)

\* positions i of rem where the pair `--name VALUE` starts
Pairs(rem, name) ==
    { i \in 1..(Len(rem) - 1) : rem[i] = DashDash \o name /\ Plain(rem[i + 1]) }

LastPair(rem, name) == CHOOSE i \in Pairs(rem, name) : \A j \in Pairs(rem, name) : j <= i

\* the plain tokens of rem that are not the VALUE of an optional parameter's
\* pair, as positions in increasing order
FreeSet(parameters, rem) ==
    { i \in 1..Len(rem) :
        /\ Plain(rem[i])
        /\ ~(i > 1 /\ IsOptionOf(parameters, rem[i - 1])) }

RECURSIVE Ascending(_)
Ascending(S) ==
    IF S = {} THEN << >>
    ELSE LET m == CHOOSE x \in S : \A y \in S : x <= y
         IN  <<m>> \o Ascending(S \ {m})

Free(parameters, rem) == Ascending(FreeSet(parameters, rem))

\* the remaining tokens are plain values, exact `--name VALUE` pairs of
\* optional parameters with a plain VALUE, and unrecognised `--` tokens
WellFormed(parameters, rem) ==
    \A i \in 1..Len(rem) :
        \/ Plain(rem[i])
        \/ IsOptionOf(parameters, rem[i]) /\ i < Len(rem) /\ Plain(rem[i + 1])
        \/ Unrecognised(parameters, rem[i])

\* the j-th required parameter is bound to the j-th free plain token
RequiredBoundInOrder(parameters, rem, kw) ==
    LET req == Required(parameters)
        fr  == Free(parameters, rem)
    IN  /\ Len(fr) >= Len(req)
        /\ \A j \in 1..Len(req) : kw[req[j]] = rem[fr[j]]

DefaultOf(parameters, name) ==
    (CHOOSE q \in SeqToSet(parameters) : q.name = name).default

(***************************************************************************)
(* C1.  Registering a handler at a path whose terminal node already has a  *)
(* handler raises RegistrationConflict and leaves the handler bound there  *)
(* in place.                                                               *)
(***************************************************************************)
C1_RegisterConflictRaises ==
    (reg.op = "cmd" /\ HasHandler(reg.before, PathOf(reg.arg)))
        => /\ reg.raised = "RegistrationConflict"
           /\ root[PathOf(reg.arg)].func = reg.before[PathOf(reg.arg)].func

(***************************************************************************)
(* C2.  A mount that would place a handler-bearing node of the group onto  *)
(* a node of the target that already has a handler raises                  *)
(* RegistrationConflict and leaves the target tree as it was.              *)
(***************************************************************************)
MountCollides(t, g, prefix) ==
    \E fp \in DOMAIN g :
        g[fp].func # NoFunc /\ HasHandler(t, PrefixOf(prefix) \o fp)

C2_MountAtomic ==
    (reg.op = "include_group" /\ MountCollides(reg.before, reg.group, reg.arg))
        => /\ reg.raised = "RegistrationConflict"
           /\ root = reg.before

(***************************************************************************)
(* C3.  find_node returns (node, path, remaining) with path \o remaining   *)
(* = argv, path a chain of child names from the root, remaining empty or   *)
(* starting with a token that is no child name of node or is flag-like;    *)
(* the descent consumes no token starting with `--`.                       *)
(***************************************************************************)
C3_GreedyDescent ==
    Dispatched =>
        /\ run.path \o run.remaining = run.argv
        /\ run.path \in DOMAIN root
        /\ \/ run.remaining = << >>
           \/ ~InSeq(run.remaining[1], root[run.path].children)
           \/ FlagLike(run.remaining[1])
        /\ \A i \in 1..Len(run.path) : ~FlagLike(run.path[i])

(***************************************************************************)
(* C4.  When dispatch reaches a handler and a required parameter is not    *)
(* satisfied by the remaining tokens, the call ends with MissingArgument   *)
(* for that parameter and exit code 1, and the handler is not invoked.     *)
(* (The precondition is taken in its plainest form: fewer non-option       *)
(* tokens than required parameters, and no `--name` of a required one.)    *)
(***************************************************************************)
SomeRequiredUnsatisfied(parameters, rem) ==
    /\ Cardinality({ i \in 1..Len(rem) : Plain(rem[i]) }) < Len(Required(parameters))
    /\ \A i \in 1..Len(rem) : \A j \in 1..Len(Required(parameters)) :
            rem[i] # DashDash \o Required(parameters)[j]

C4_MissingRequired ==
    (ReachedHandler /\ SomeRequiredUnsatisfied(TheParameters, run.remaining))
        => /\ run.kind = "missing"
           /\ run.exited /\ run.code = 1
           /\ run.calls = << >>

(***************************************************************************)
(* C5.  As claimed: when dispatch reaches a handler with all required      *)
(* parameters supplied positionally, the handler is invoked exactly once,  *)
(* each required parameter bound to its positional token in declaration    *)
(* order, each optional parameter bound to the VALUE of its `--name VALUE` *)
(* pair when the pair appears and to its default otherwise.                *)
(***************************************************************************)
SuppliedPositionally(parameters, rem) ==
    Len(Free(parameters, rem)) >= Len(Required(parameters))

DescentEnd(t, argv) ==
    LET ks == { k \in 0..Len(argv) : SubSeq(argv, 1, k) \in DOMAIN t }
    IN  SubSeq(argv, 1, CHOOSE k \in ks : \A m \in ks : m <= k)

C7_HandlerlessStop ==
    (/\ run.kind # "none"
     /\ run.argv # << >>
     /\ ~InSeq(Completion, run.argv)
     /\ ~HasHandler(root, DescentEnd(root, run.argv)))
        => /\ run.calls = << >>
           /\ run.exited /\ run.code = 1
           /\ IF root[DescentEnd(root, run.argv)].children # << >>
              THEN /\ run.kind = "usage"
                   /\ run.out = root[DescentEnd(root, run.argv)].children
              ELSE run.kind = "unknown"

\* resolution stopped below the root at a node with children and no handler
C7_Witness ==
    /\ run.kind = "usage"
    /\ run.path # << >>
    /\ ~HasHandler(root, run.path)
    /\ run.out # << >>

(***************************************************************************)
(* C8.  With the words typed so far exactly the path of a node that has    *)
(* children, and the cursor on the next (still empty) word, the script     *)
(* suggests exactly the node's child names plus the option names           *)
(* `--param` of the node's own parameters.                                 *)
(***************************************************************************)
OwnOptions(node) ==
    { DashDash \o node.signature.parameters[i].name :
        i \in 1..Len(node.signature.parameters) }

C8_SuggestAfterPath ==
    (/\ comp.kind = "done"
     /\ comp.cur = << >>
     /\ comp.before \in DOMAIN root
     /\ root[comp.before].children # << >>)
        => SeqToSet(comp.reply) =
              SeqToSet(root[comp.before].children) \cup OwnOptions(root[comp.before])

(***************************************************************************)
(* C9.  The emitted script is a function of the tree alone: two trees with *)
(* the same nodes, handlers, parameters and candidates give the same       *)
(* script, whatever the order of the registrations that built them.        *)
(***************************************************************************)
SameTree(t, u) ==
    /\ DOMAIN t = DOMAIN u
    /\ \A p \in DOMAIN t :
          /\ t[p].func = u[p].func
          /\ t[p].help = u[p].help
          /\ t[p].signature = u[p].signature
          /\ t[p].completion = u[p].completion
          /\ SeqToSet(t[p].children) = SeqToSet(u[p].children)

C9_ScriptOfTreeAlone ==
    (/\ run.kind = "completion"
     /\ run2.kind = "completion"
     /\ SameTree(root, root2))
        => run.out = run2.out

(***************************************************************************)
(* C10.  The label computed by the script's find_cmd_label for the words   *)
(* before the cursor is the `_`-joined path find_node returns for the same *)
(* words, and its index is one plus the number of words find_node          *)
(* consumed.                                                               *)
(***************************************************************************)
C10_LabelMirrorsDispatcher ==
    (comp.kind = "done" /\ comp.defined /\ comp.cword >= 2)
        => /\ comp.last_label = join(find_node(root, comp.before).path, Underscore)
           /\ comp.idx = 1 + Len(find_node(root, comp.before).path)

(***************************************************************************)
(* C11.  After any sequence of cmd and include_group calls every non-root  *)
(* node of the tree has a handler or at least one child.                   *)
(***************************************************************************)
C11_NoDeadNodes ==
    \A p \in DOMAIN root :
        p # << >> => (root[p].func # NoFunc \/ root[p].children # << >>)

(***************************************************************************)
(* C12.  Two distinct handler-bearing paths never get the same             *)
(* `_`-joined label, and the emitted opts table holds, for every           *)
(* handler-bearing path, an entry under its label with that node's own     *)
(* option list.                                                            *)
(***************************************************************************)
HandlerPaths(t) == { p \in DOMAIN t : t[p].func # NoFunc }

C12_LabelsInjective ==
    LET script == print_completion(root)
    IN  /\ \A p, q \in HandlerPaths(root) :
              p # q => join(p, Underscore) # join(q, Underscore)
        /\ \A p \in HandlerPaths(root) :
              \E i \in 1..Len(script.opts) :
                 script.opts[i] = <<join(p, Underscore),
                                    join(opt_list(root[p]), Space)>>

====
